---- MODULE Spec2Model ----
(***************************************************************************)
(* Model of the siquery virtual table (src/src/vtab/siqtab.rs): the        *)
(* connect call that turns construction arguments into a table and a       *)
(* schema, and the cursor that scans the table.                            *)
(*                                                                         *)
(* Text is modelled at character level: a string is a sequence of          *)
(* one-character strings, so that trimming, splitting on '=', dequoting,   *)
(* quote doubling and CSV tokenizing are computed, not assumed.            *)
(* Carriage returns and non-UTF-8 bytes are outside the alphabet.          *)
(***************************************************************************)
EXTENDS Integers, Sequences, FiniteSets, TLC

VARIABLES args, clearsRecord, result, cursors, scan, ret

vars == <<args, clearsRecord, result, cursors, scan, ret>>

----------------------------------------------------------------------------
(* Bounds of the model.                                                    *)

\* longest list of key=value arguments after the three host slots
MaxArgs == 3
\* most records in a generated source text
MaxRows == 3
\* cursors that the host may hold open on one table at a time
NumCursors == 2
\* largest column index the host asks for
MaxCol == 2

----------------------------------------------------------------------------
(* Character-level text helpers.                                           *)

NUL == "NUL"
Digits == <<"0", "1", "2", "3", "4", "5", "6", "7", "8", "9">>
U16Max == 65535

IsSpace(ch) == ch \in {" ", "\n", "\t"}

RECURSIVE TrimStart(_)
TrimStart(s) ==
    IF s # <<>> /\ IsSpace(Head(s)) THEN TrimStart(Tail(s)) ELSE s

RECURSIVE TrimEnd(_)
TrimEnd(s) ==
    IF s # <<>> /\ IsSpace(s[Len(s)]) THEN TrimEnd(SubSeq(s, 1, Len(s) - 1)) ELSE s

\* str::trim
Trim(s) == TrimEnd(TrimStart(s))

\* str::split('='): the pieces between the '=' characters, all of them
RECURSIVE SplitEq(_, _, _)
SplitEq(s, i, cur) ==
    IF i > Len(s) THEN <<cur>>
    ELSE IF s[i] = "=" THEN <<cur>> \o SplitEq(s, i + 1, <<>>)
    ELSE SplitEq(s, i + 1, Append(cur, s[i]))

\* str::replace("\\n", "\n"): every backslash followed by n becomes a newline
RECURSIVE ReplaceEscapedNewline(_, _)
ReplaceEscapedNewline(s, i) ==
    IF i > Len(s) THEN <<>>
    ELSE IF i < Len(s) /\ s[i] = "\\" /\ s[i + 1] = "n"
         THEN <<"\n">> \o ReplaceEscapedNewline(s, i + 2)
    ELSE <<s[i]>> \o ReplaceEscapedNewline(s, i + 1)

DigitValue(ch) == (CHOOSE k \in 1..10 : Digits[k] = ch) - 1

IsDigit(ch) == \E k \in 1..10 : Digits[k] = ch

RECURSIVE DigitsValue(_, _)
DigitsValue(s, acc) ==
    IF s = <<>> THEN acc
    ELSE IF acc > U16Max THEN acc
    ELSE DigitsValue(Tail(s), 10 * acc + DigitValue(Head(s)))

\* str::parse::<u16>: -1 stands for Err
ParseU16(s) ==
    LET body == IF s # <<>> /\ Head(s) = "+" THEN Tail(s) ELSE s
    IN  IF body = <<>> \/ \E k \in 1..Len(body) : ~IsDigit(body[k]) THEN -1
        ELSE LET v == DigitsValue(body, 0) IN IF v > U16Max THEN -1 ELSE v

\* format!("{}", i) of an unsigned integer
RECURSIVE FormatNat(_)
FormatNat(n) ==
    IF n < 10 THEN <<Digits[n + 1]>>
    ELSE FormatNat(n \div 10) \o <<Digits[(n % 10) + 1]>>

\* format!("c{}", i)
ColName(i) == <<"c">> \o FormatNat(i)

----------------------------------------------------------------------------
(* Helpers of the vtab module used by siqtab.rs (vtab::dequote,            *)
(* vtab::parse_boolean, vtab::escape_double_quote).                        *)

dequote(s) ==
    IF Len(s) < 2 THEN s
    ELSE IF Head(s) \in {"\"", "'"} /\ s[Len(s)] = Head(s)
         THEN SubSeq(s, 2, Len(s) - 1)
    ELSE s

\* "T", "F" or "None"
parse_boolean(s) ==
    IF s \in {<<"y", "e", "s">>, <<"o", "n">>, <<"t", "r", "u", "e">>, <<"1">>} THEN "T"
    ELSE IF s \in {<<"n", "o">>, <<"o", "f", "f">>, <<"f", "a", "l", "s", "e">>, <<"0">>} THEN "F"
    ELSE "None"

RECURSIVE escape_double_quote(_)
escape_double_quote(s) ==
    IF s = <<>> THEN <<>>
    ELSE IF Head(s) = "\"" THEN <<"\"", "\"">> \o escape_double_quote(Tail(s))
    ELSE <<Head(s)>> \o escape_double_quote(Tail(s))

----------------------------------------------------------------------------
(* The record parser (the csv crate's Reader over an in-memory buffer).    *)

IsTerm(ch) == ch = "\n"

\* One record read by the tokenizer from byte offset `from` (0-based).
\* st is the tokenizer state; the result says whether a record was produced,
\* its fields, and the byte offset after the bytes consumed.
RECURSIVE CoreRead(_, _, _, _, _, _, _)
CoreRead(text, i, st, fields, cur, dl, qt) ==
    IF i > Len(text)
    THEN IF st = "StartRecord"
         THEN [res |-> "End", fields |-> <<>>, byte |-> Len(text)]
         ELSE [res |-> "Record", fields |-> Append(fields, cur), byte |-> Len(text)]
    ELSE LET ch == text[i] IN
      CASE st = "StartRecord" ->
             IF IsTerm(ch) THEN CoreRead(text, i + 1, "StartRecord", fields, cur, dl, qt)
             ELSE CoreRead(text, i, "StartField", fields, cur, dl, qt)
        [] st = "StartField" ->
             IF ch = qt THEN CoreRead(text, i + 1, "InQuotedField", fields, cur, dl, qt)
             ELSE IF ch = dl
                  THEN CoreRead(text, i + 1, "StartField", Append(fields, cur), <<>>, dl, qt)
             ELSE IF IsTerm(ch)
                  THEN [res |-> "Record", fields |-> Append(fields, cur), byte |-> i]
             ELSE CoreRead(text, i + 1, "InField", fields, Append(cur, ch), dl, qt)
        [] st = "InField" ->
             IF ch = dl
             THEN CoreRead(text, i + 1, "StartField", Append(fields, cur), <<>>, dl, qt)
             ELSE IF IsTerm(ch)
                  THEN [res |-> "Record", fields |-> Append(fields, cur), byte |-> i]
             ELSE CoreRead(text, i + 1, "InField", fields, Append(cur, ch), dl, qt)
        [] st = "InQuotedField" ->
             IF ch = qt
             THEN CoreRead(text, i + 1, "InDoubleEscapedQuote", fields, cur, dl, qt)
             ELSE CoreRead(text, i + 1, "InQuotedField", fields, Append(cur, ch), dl, qt)
        [] OTHER -> \* InDoubleEscapedQuote
             IF ch = qt
             THEN CoreRead(text, i + 1, "InQuotedField", fields, Append(cur, ch), dl, qt)
             ELSE IF ch = dl
                  THEN CoreRead(text, i + 1, "StartField", Append(fields, cur), <<>>, dl, qt)
             ELSE IF IsTerm(ch)
                  THEN [res |-> "Record", fields |-> Append(fields, cur), byte |-> i]
             ELSE CoreRead(text, i + 1, "InField", fields, Append(cur, ch), dl, qt)

\* csv::Position::new()
PositionNew == [byte |-> 0, record |-> 0]

\* A record value: its fields and the position it was read at.
RecordNew == [fields |-> <<>>, at |-> -1]

\* ReaderBuilder::from_reader: a reader at the start of `text`
ReaderNew(text, has_headers, dl, qt) ==
    [text |-> text, has_headers |-> has_headers, delimiter |-> dl, quote |-> qt,
     cur_pos |-> PositionNew, eof |-> FALSE, headers |-> <<>>, first |-> FALSE,
     seeked |-> FALSE, first_field_count |-> -1]

\* Reader::read_byte_record_impl: [rdr, rec, ok] with ok in "true", "false", "err".
\* clr says whether this build of the library clears the record before reading.
ReadImpl(rdr, rec, clr) ==
    LET rec0 == [fields |-> IF clr THEN <<>> ELSE rec.fields, at |-> rdr.cur_pos.byte] IN
    IF rdr.eof THEN [rdr |-> rdr, rec |-> rec0, ok |-> "false"]
    ELSE LET got == CoreRead(rdr.text, rdr.cur_pos.byte + 1, "StartRecord", <<>>, <<>>,
                             rdr.delimiter, rdr.quote) IN
      IF got.res = "End"
      THEN [rdr |-> [rdr EXCEPT !.cur_pos.byte = got.byte, !.eof = TRUE],
            rec |-> rec0, ok |-> "false"]
      ELSE LET n == Len(got.fields)
               moved == [rdr EXCEPT !.cur_pos = [byte |-> got.byte,
                                                  record |-> rdr.cur_pos.record + 1]]
               rec1 == [fields |-> got.fields, at |-> rdr.cur_pos.byte]
           IN  IF rdr.first_field_count = -1
               THEN [rdr |-> [moved EXCEPT !.first_field_count = n], rec |-> rec1, ok |-> "true"]
               ELSE IF rdr.first_field_count # n
                    THEN [rdr |-> moved, rec |-> rec1, ok |-> "err"]
               ELSE [rdr |-> moved, rec |-> rec1, ok |-> "true"]

\* Reader::headers / byte_headers: reads the first record when none is held
ReadHeaders(rdr, clr) ==
    IF rdr.headers # <<>> THEN rdr
    ELSE LET r == ReadImpl(rdr, RecordNew, clr)
         IN  [r.rdr EXCEPT !.headers = <<r.rec.fields>>]

\* Reader::read_record
ReadRecord(rdr, rec, clr) ==
    IF ~rdr.seeked /\ ~rdr.has_headers /\ ~rdr.first /\ rdr.headers # <<>>
    THEN [rdr |-> [rdr EXCEPT !.first = TRUE],
          rec |-> [fields |-> rdr.headers[1], at |-> 0],
          ok |-> IF rdr.headers[1] # <<>> THEN "true" ELSE "false"]
    ELSE LET r == ReadImpl(rdr, rec, clr)
             r1 == [r.rdr EXCEPT !.first = TRUE]
         IN  IF r.ok = "err" THEN r
             ELSE IF ~rdr.seeked /\ rdr.headers = <<>>
                  THEN LET r2 == [r1 EXCEPT !.headers = <<r.rec.fields>>]
                       IN  IF rdr.has_headers THEN ReadImpl(r2, r.rec, clr)
                           ELSE [r EXCEPT !.rdr = r2]
             ELSE [r EXCEPT !.rdr = r1]

\* Reader::seek
Seek(rdr, pos, clr) ==
    LET r == [ReadHeaders(rdr, clr) EXCEPT !.seeked = TRUE]
    IN  IF pos.byte = r.cur_pos.byte THEN r
        ELSE [r EXCEPT !.cur_pos = pos, !.eof = FALSE]

\* Reader::is_done
IsDone(rdr) == rdr.eof

----------------------------------------------------------------------------
(* SIQUERYModule: argument parsing and connect.                            *)

KeyTable == <<"t", "a", "b", "l", "e">>
KeySchema == <<"s", "c", "h", "e", "m", "a">>
KeyColumns == <<"c", "o", "l", "u", "m", "n", "s">>
KeyHeader == <<"h", "e", "a", "d", "e", "r">>
KeyDelimiter == <<"d", "e", "l", "i", "m", "i", "t", "e", "r">>
KeyQuote == <<"q", "u", "o", "t", "e">>

\* A parser that takes everything after the first '=' as the value
parameterKeepsRest(c_slice) ==
    LET arg == Trim(c_slice)
        split == SplitEq(arg, 1, <<>>)
    IN  IF Len(split) >= 2
        THEN [ok |-> TRUE, param |-> Trim(split[1]),
              value |-> dequote(SubSeq(arg, Len(split[1]) + 2, Len(arg)))]
        ELSE [ok |-> FALSE, param |-> <<>>, value |-> <<>>]

\* SIQUERYModule::parameter: [ok, param, value]
parameter(c_slice) ==
    LET arg == Trim(c_slice)
        split == SplitEq(arg, 1, <<>>)
    IN  IF Len(split) >= 2
        THEN [ok |-> TRUE, param |-> Trim(split[1]), value |-> dequote(split[2])]
        ELSE [ok |-> FALSE, param |-> <<>>, value |-> <<>>]

\* SIQUERYModule::parse_byte: the byte, or "None"
parse_byte(arg) == IF Len(arg) = 1 THEN arg[1] ELSE "None"

\* The table value as connect starts with it.
VTabNew ==
    [table |-> <<>>, has_headers |-> FALSE, delimiter |-> ",", quote |-> "\"",
     offset_first_row |-> PositionNew]

\* What connect has accumulated before the argument loop.
AccNew == [vtab |-> VTabNew, schema |-> "None", n_col |-> -1, err |-> "", errArg |-> 0]

\* A reader that keeps the default quote byte when the table's quote is 0
readerDefaultQuote(vtab) ==
    ReaderNew(ReplaceEscapedNewline(vtab.table, 1), vtab.has_headers,
              vtab.delimiter, IF vtab.quote = NUL THEN "\"" ELSE vtab.quote)

\* SIQUERYTab::reader
reader(vtab) ==
    ReaderNew(ReplaceEscapedNewline(vtab.table, 1), vtab.has_headers,
              vtab.delimiter, vtab.quote)

\* The "table" arm of connect's match
TableArm(acc, value) ==
    IF value = <<>> THEN acc ELSE [acc EXCEPT !.vtab.table = value]

\* A "columns" arm in which a later columns parameter replaces an earlier one
ColumnsArmLastWins(acc, value) ==
    LET n == ParseU16(value) IN
    IF n = -1 THEN [acc EXCEPT !.err = "unrecognized argument to 'columns'"]
    ELSE IF n = 0 THEN [acc EXCEPT !.err = "must have at least one column"]
    ELSE [acc EXCEPT !.n_col = n]

\* The "columns" arm of connect's match
ColumnsArm(acc, value) ==
    LET n == ParseU16(value) IN
    IF n = -1 THEN [acc EXCEPT !.err = "unrecognized argument to 'columns'"]
    ELSE IF acc.n_col # -1 THEN [acc EXCEPT !.err = "more than one 'columns' parameter"]
    ELSE IF n = 0 THEN [acc EXCEPT !.err = "must have at least one column"]
    ELSE [acc EXCEPT !.n_col = n]

\* An unknown key that is skipped instead of refused
UnknownArmSkips(acc, param) == acc

\* The catch-all arm of connect's match
UnknownArm(acc, param) == [acc EXCEPT !.err = "unrecognized parameter"]

\* One turn of connect's loop over the arguments: the accumulator after the
\* argument, with err set when the argument makes connect return an error.
ConnectArg(acc, c_slice) ==
    LET p == parameter(c_slice) IN
    IF ~p.ok THEN [acc EXCEPT !.err = "illegal argument"]
    ELSE CASE p.param = KeyTable -> TableArm(acc, p.value)
           [] p.param = KeySchema -> [acc EXCEPT !.schema = p.value]
           [] p.param = KeyColumns -> ColumnsArm(acc, p.value)
           [] p.param = KeyHeader ->
                LET b == parse_boolean(p.value) IN
                IF b = "None" THEN [acc EXCEPT !.err = "unrecognized argument to 'header'"]
                ELSE [acc EXCEPT !.vtab.has_headers = (b = "T")]
           [] p.param = KeyDelimiter ->
                LET b == parse_byte(p.value) IN
                IF b = "None" THEN [acc EXCEPT !.err = "unrecognized argument to 'delimiter'"]
                ELSE [acc EXCEPT !.vtab.delimiter = b]
           [] p.param = KeyQuote ->
                LET b == parse_byte(p.value) IN
                IF b = "None" THEN [acc EXCEPT !.err = "unrecognized argument to 'quote'"]
                ELSE [acc EXCEPT !.vtab.quote = IF b = "0" THEN NUL ELSE b]
           [] OTHER -> UnknownArm(acc, p.param)

\* connect's loop: stops at the first argument that returns an error
RECURSIVE ConnectLoop(_, _, _)
ConnectLoop(acc, a, i) ==
    IF i > Len(a) THEN acc
    ELSE LET nxt == ConnectArg(acc, a[i]) IN
         IF nxt.err # "" THEN [nxt EXCEPT !.errArg = i]
         ELSE ConnectLoop(nxt, a, i + 1)

\* c0 .. c(n-1)
NumberedCols(n) == [i \in 1..n |-> ColName(i - 1)]

\* Header fields taken as column names as they are
HeaderColsRaw(headers) == headers

\* The header record's fields as column names
HeaderCols(headers) == [i \in 1..Len(headers) |-> escape_double_quote(headers[i])]

\* Column inference that is skipped as a whole when a schema was supplied, so
\* that the first-row position stays at the start of the payload
ConnectColsSkippedOnSchema(acc, clr) ==
    LET vtab == acc.vtab
        free == acc.n_col = -1 /\ acc.schema = "None"
    IN  IF acc.schema # "None" THEN [cols |-> <<>>, vtab |-> vtab]
        ELSE IF vtab.has_headers
             THEN LET rd == ReadHeaders(reader(vtab), clr) IN
                  [cols |-> IF free THEN HeaderCols(rd.headers[1]) ELSE <<>>,
                   vtab |-> [vtab EXCEPT !.offset_first_row = rd.cur_pos]]
        ELSE IF free
             THEN LET r == ReadRecord(reader(vtab), RecordNew, clr) IN
                  [cols |-> IF r.ok = "true" THEN NumberedCols(Len(r.rec.fields)) ELSE <<>>,
                   vtab |-> vtab]
        ELSE [cols |-> NumberedCols(acc.n_col), vtab |-> vtab]

\* Column names and first-row position as connect derives them: [cols, vtab]
ConnectCols(acc, clr) ==
    LET vtab == acc.vtab
        free == acc.n_col = -1 /\ acc.schema = "None"
    IN  IF vtab.has_headers \/ free
        THEN IF vtab.has_headers
             THEN LET rd == ReadHeaders(reader(vtab), clr) IN
                  [cols |-> IF free THEN HeaderCols(rd.headers[1]) ELSE <<>>,
                   vtab |-> [vtab EXCEPT !.offset_first_row = rd.cur_pos]]
             ELSE LET r == ReadRecord(reader(vtab), RecordNew, clr) IN
                  [cols |-> IF r.ok = "true" THEN NumberedCols(Len(r.rec.fields)) ELSE <<>>,
                   vtab |-> vtab]
        ELSE IF acc.n_col # -1
             THEN [cols |-> NumberedCols(acc.n_col), vtab |-> vtab]
        ELSE [cols |-> <<>>, vtab |-> vtab]

SqlHead == <<"C", "R", "E", "A", "T", "E", " ", "T", "A", "B", "L", "E", " ", "x", "(">>
SqlText == <<"\"", " ", "T", "E", "X", "T">>
SqlEnd == <<")", ";">>
SqlSep == <<",", " ">>

\* Schema text with the separator written after every column, the last included
RECURSIVE SchemaSqlTrailingSep(_, _)
SchemaSqlTrailingSep(cols, i) ==
    IF i > Len(cols) THEN SqlEnd
    ELSE <<"\"">> \o cols[i] \o SqlText \o SqlSep \o SchemaSqlTrailingSep(cols, i + 1)

\* The schema text connect builds from the column names
RECURSIVE SchemaSql(_, _)
SchemaSql(cols, i) ==
    IF i > Len(cols) THEN <<>>
    ELSE <<"\"">> \o cols[i] \o SqlText
         \o (IF i = Len(cols) THEN SqlEnd ELSE SqlSep)
         \o SchemaSql(cols, i + 1)

NoResult ==
    [status |-> "none", msg |-> "", errArg |-> 0, schema |-> <<>>, cols |-> <<>>,
     vtab |-> VTabNew]

ConnectErr(msg, i) == [NoResult EXCEPT !.status = "err", !.msg = msg, !.errArg = i]

\* SIQUERYModule::connect. a is the whole argument list, host slots included.
connect(a, clr) ==
    IF Len(a) < 4 THEN ConnectErr("no table name specified", 0)
    ELSE LET params == SubSeq(a, 4, Len(a))
             acc == ConnectLoop(AccNew, params, 1)
         IN  IF acc.err # "" THEN ConnectErr(acc.err, acc.errArg)
             ELSE IF acc.vtab.table = <<>> THEN ConnectErr("no table name specified", 0)
             ELSE LET cv == ConnectCols(acc, clr) IN
                  IF cv.cols = <<>> /\ acc.schema = "None"
                  THEN ConnectErr("no column specified", 0)
                  ELSE [status |-> "ok", msg |-> "", errArg |-> 0,
                        schema |-> IF acc.schema = "None"
                                   THEN SqlHead \o SchemaSql(cv.cols, 1)
                                   ELSE acc.schema,
                        cols |-> cv.cols,
                        vtab |-> cv.vtab]

----------------------------------------------------------------------------
(* SIQUERYTab and SIQUERYTabCursor.                                        *)

Cursors == 1..NumCursors

\* A slot of the host that holds no cursor.
NoCursor ==
    [open |-> FALSE, reader |-> ReaderNew(<<>>, FALSE, ",", "\""), row_number |-> 0,
     cols |-> RecordNew, eof |-> FALSE]

\* SIQUERYTabCursor::new
CursorNew(rdr) ==
    [open |-> TRUE, reader |-> rdr, row_number |-> 0, cols |-> RecordNew, eof |-> FALSE]

\* SIQUERYTab::open
OpenCursor(vtab) == CursorNew(reader(vtab))

\* next() with the row counter advanced before the read, so that a failed read
\* counts as a row
NextCursorCountsFailed(cur, clr) ==
    IF IsDone(cur.reader) THEN [cur |-> [cur EXCEPT !.eof = TRUE], ok |-> TRUE]
    ELSE LET r == ReadRecord(cur.reader, cur.cols, clr) IN
         [cur |-> [cur EXCEPT !.reader = r.rdr, !.cols = r.rec,
                              !.eof = (r.ok = "false"),
                              !.row_number = cur.row_number + 1],
          ok |-> r.ok # "err"]

\* next() that reads once more after a failed read before it gives up
NextCursorRetries(cur, clr) ==
    IF IsDone(cur.reader) THEN [cur |-> [cur EXCEPT !.eof = TRUE], ok |-> TRUE]
    ELSE LET r0 == ReadRecord(cur.reader, cur.cols, clr)
             r == IF r0.ok = "err" THEN ReadRecord(r0.rdr, r0.rec, clr) ELSE r0
         IN  IF r0.ok = "err"
             THEN [cur |-> [cur EXCEPT !.reader = r.rdr, !.cols = r.rec, !.eof = FALSE],
                   ok |-> FALSE]
             ELSE [cur |-> [cur EXCEPT !.reader = r.rdr, !.cols = r.rec,
                                       !.eof = (r.ok = "false"),
                                       !.row_number = cur.row_number + 1],
                   ok |-> TRUE]

\* next() that reports the end of data one call late: a read that finds no
\* record leaves eof false
NextCursorLateEof(cur, clr) ==
    IF IsDone(cur.reader) THEN [cur |-> [cur EXCEPT !.eof = TRUE], ok |-> TRUE]
    ELSE LET r == ReadRecord(cur.reader, cur.cols, clr) IN
         IF r.ok = "err"
         THEN [cur |-> [cur EXCEPT !.reader = r.rdr, !.cols = r.rec, !.eof = FALSE],
               ok |-> FALSE]
         ELSE [cur |-> [cur EXCEPT !.reader = r.rdr, !.cols = r.rec, !.eof = FALSE,
                                   !.row_number = cur.row_number + 1],
               ok |-> TRUE]

\* next() that reads without asking the reader whether it is done
NextCursorNoDoneCheck(cur, clr) ==
    LET r == ReadRecord(cur.reader, cur.cols, clr) IN
    IF r.ok = "err"
    THEN [cur |-> [cur EXCEPT !.reader = r.rdr, !.cols = r.rec, !.eof = FALSE],
          ok |-> FALSE]
    ELSE [cur |-> [cur EXCEPT !.reader = r.rdr, !.cols = r.rec,
                              !.eof = (r.ok = "false"),
                              !.row_number = cur.row_number + 1],
          ok |-> TRUE]

\* SIQUERYTabCursor::next: [cur, ok]
NextCursor(cur, clr) ==
    IF IsDone(cur.reader) THEN [cur |-> [cur EXCEPT !.eof = TRUE], ok |-> TRUE]
    ELSE LET r == ReadRecord(cur.reader, cur.cols, clr) IN
         IF r.ok = "err"
         THEN [cur |-> [cur EXCEPT !.reader = r.rdr, !.cols = r.rec, !.eof = FALSE],
               ok |-> FALSE]
         ELSE [cur |-> [cur EXCEPT !.reader = r.rdr, !.cols = r.rec,
                                   !.eof = (r.ok = "false"),
                                   !.row_number = cur.row_number + 1],
               ok |-> TRUE]

\* filter() that rewinds to the start of the payload
FilterCursorFromStart(cur, vtab, clr) ==
    LET sought == Seek(cur.reader, PositionNew, clr)
    IN  NextCursor([cur EXCEPT !.reader = sought, !.row_number = 0], clr)

\* filter() that does not rewind
FilterCursorNoSeek(cur, vtab, clr) ==
    NextCursor([cur EXCEPT !.row_number = 0], clr)

\* SIQUERYTabCursor::filter: [cur, ok]
FilterCursor(cur, vtab, clr) ==
    LET sought == Seek(cur.reader, vtab.offset_first_row, clr)
    IN  NextCursor([cur EXCEPT !.reader = sought, !.row_number = 0], clr)

\* column() that looks for an empty record before it checks the index
ColumnValueNullFirst(cur, col) ==
    IF cur.cols.fields = <<>> THEN [ok |-> TRUE, val |-> "Null"]
    ELSE IF col < 0 \/ col >= Len(cur.cols.fields) THEN [ok |-> FALSE, val |-> "IndexError"]
    ELSE [ok |-> TRUE, val |-> cur.cols.fields[col + 1]]

\* SIQUERYTabCursor::column: [ok, val]
ColumnValue(cur, col) ==
    IF col < 0 \/ col >= Len(cur.cols.fields) THEN [ok |-> FALSE, val |-> "IndexError"]
    ELSE IF cur.cols.fields = <<>> THEN [ok |-> TRUE, val |-> "Null"]
    ELSE [ok |-> TRUE, val |-> cur.cols.fields[col + 1]]

\* SIQUERYTabCursor::rowid
RowidValue(cur) == cur.row_number

\* Cursors that share one reader: the reader c has moved is everyone's
StoreCursorSharedReader(cs, c, cur) ==
    [d \in DOMAIN cs |->
        IF d = c THEN cur
        ELSE IF cs[d].open /\ cur.open THEN [cs[d] EXCEPT !.reader = cur.reader]
        ELSE cs[d]]

\* The cursors after cursor c's own state became cur: each cursor owns its
\* reader and iteration state.
StoreCursor(cs, c, cur) == [cs EXCEPT ![c] = cur]

----------------------------------------------------------------------------
(* History of each scan, kept for stating properties: the rows a cursor    *)
(* has yielded since it was opened or last filtered.                       *)

\* The records of a text, in order, each with the byte offset it starts at.
RECURSIVE RecordsFrom(_, _, _, _)
RecordsFrom(text, byte, dl, qt) ==
    LET got == CoreRead(text, byte + 1, "StartRecord", <<>>, <<>>, dl, qt) IN
    IF got.res = "End" THEN <<>>
    ELSE <<[fields |-> got.fields, at |-> byte]>> \o RecordsFrom(text, got.byte, dl, qt)

\* The records of a table's source.
SourceRecords(vtab) ==
    RecordsFrom(ReplaceEscapedNewline(vtab.table, 1), 0, vtab.delimiter, vtab.quote)

\* The next() calls since the last filter() are counted up to one more than
\* the records of the source.
NextsCap(vtab) == Len(SourceRecords(vtab)) + 1

NoScan == [rows |-> <<>>, filtered |-> FALSE, again |-> FALSE, nexts |-> 0]

Row(cur) == [rowid |-> RowidValue(cur), fields |-> cur.cols.fields, at |-> cur.cols.at]

Yield(sc, r) ==
    IF r.ok /\ ~r.cur.eof THEN [sc EXCEPT !.rows = Append(sc.rows, Row(r.cur))] ELSE sc

NoRet == [op |-> "none", cur |-> 0, ok |-> TRUE, val |-> 0]

----------------------------------------------------------------------------
(* Actions: one per call of the host.                                      *)

Connect ==
    /\ result.status = "none"
    /\ result' = connect(args, clearsRecord)
    /\ ret' = [op |-> "connect", cur |-> 0, ok |-> result'.status = "ok", val |-> 0]
    /\ UNCHANGED <<args, clearsRecord, cursors, scan>>

open(c) ==
    /\ result.status = "ok"
    /\ ~cursors[c].open
    /\ cursors' = StoreCursor(cursors, c, OpenCursor(result.vtab))
    /\ scan' = [scan EXCEPT ![c] = NoScan]
    /\ ret' = [op |-> "open", cur |-> c, ok |-> TRUE, val |-> 0]
    /\ UNCHANGED <<args, clearsRecord, result>>

close(c) ==
    /\ cursors[c].open
    /\ cursors' = StoreCursor(cursors, c, NoCursor)
    /\ scan' = [scan EXCEPT ![c] = NoScan]
    /\ ret' = [op |-> "close", cur |-> c, ok |-> TRUE, val |-> 0]
    /\ UNCHANGED <<args, clearsRecord, result>>

filter(c) ==
    /\ cursors[c].open
    /\ \E r \in {FilterCursor(cursors[c], result.vtab, clearsRecord)} :
       /\ cursors' = StoreCursor(cursors, c, r.cur)
       /\ scan' = [scan EXCEPT ![c] =
                     Yield([rows |-> <<>>, filtered |-> TRUE,
                            again |-> scan[c].filtered \/ scan[c].rows # <<>>
                                      \/ cursors[c].eof,
                            nexts |-> 0], r)]
       /\ ret' = [op |-> "filter", cur |-> c, ok |-> r.ok, val |-> 0]
    /\ UNCHANGED <<args, clearsRecord, result>>

next(c) ==
    /\ cursors[c].open
    /\ \E r \in {NextCursor(cursors[c], clearsRecord)} :
       /\ cursors' = StoreCursor(cursors, c, r.cur)
       /\ scan' = [scan EXCEPT ![c] =
                     Yield([@ EXCEPT !.nexts = IF @ < NextsCap(result.vtab) THEN @ + 1 ELSE @], r)]
       /\ ret' = [op |-> "next", cur |-> c, ok |-> r.ok, val |-> 0]
    /\ UNCHANGED <<args, clearsRecord, result>>

eof(c) ==
    /\ cursors[c].open
    /\ ret' = [op |-> "eof", cur |-> c, ok |-> TRUE, val |-> cursors[c].eof]
    /\ UNCHANGED <<args, clearsRecord, result, cursors, scan>>

column(c, col) ==
    /\ cursors[c].open
    /\ LET r == ColumnValue(cursors[c], col) IN
       ret' = [op |-> "column", cur |-> c, ok |-> r.ok, val |-> <<col, r.val>>]
    /\ UNCHANGED <<args, clearsRecord, result, cursors, scan>>

rowid(c) ==
    /\ cursors[c].open
    /\ ret' = [op |-> "rowid", cur |-> c, ok |-> TRUE, val |-> RowidValue(cursors[c])]
    /\ UNCHANGED <<args, clearsRecord, result, cursors, scan>>

----------------------------------------------------------------------------
(* Inputs: the argument lists the host may pass.                           *)

Kv(key, value) == key \o <<"=">> \o value

\* argv[0..2]: module name, database name, table name
HostSlots == << <<"s", "i", "q", "u", "e", "r", "y">>, <<"m", "a", "i", "n">>, <<"v">> >>

EscNewline == <<"\\", "n">>

RECURSIVE JoinRows(_)
JoinRows(rows) ==
    IF Len(rows) = 1 THEN rows[1]
    ELSE rows[1] \o EscNewline \o JoinRows(Tail(rows))

RowPool == { <<"a", ",", "b">>, <<"\"", "x", ",", "\"", "\"", "y", "\"">> }

GeneratedSources == { JoinRows(rows) : rows \in UNION { [1..k -> RowPool] : k \in 1..MaxRows } }

ExtraSources ==
    { <<"a", "\n", "\n", "b", "\n", "c", "\n">>,
      JoinRows(<< <<"a", ",", "b">>, <<"\"", "x", "\"", "\"", "y", "\"", ",", "d">>,
                  <<"e", ",", "f">> >>),
      JoinRows(<< <<"c">>, <<"a", ",", "b">>, <<"d">> >>),
      <<"a", ";", "b", "\\", "n", "c", ";", "\"">>,
      <<"\\", "n">> }

ScanSources == GeneratedSources \cup ExtraSources

Yes == <<"y", "e", "s">>
No == <<"n", "o">>
SchemaText == SqlHead \o <<"p", ",", "q", ")", ";">>

HeaderOpts == { <<>>, <<Kv(KeyHeader, Yes)>>, <<Kv(KeyHeader, No)>> }

ExtraOpts ==
    { <<>>, <<Kv(KeySchema, SchemaText)>>, <<Kv(KeyColumns, <<"2">>)>>,
      <<Kv(KeyQuote, <<"0">>)>>, <<Kv(KeyDelimiter, <<";">>)>> }

ScanArgs ==
    { HostSlots \o <<Kv(KeyTable, t)>> \o h \o e :
        t \in ScanSources, h \in HeaderOpts \ {<<>>}, e \in ExtraOpts }

IsoSources == { JoinRows(<< <<"a", ",", "b">>, <<"c", ",", "d">> >>) }

IsoArgs ==
    { HostSlots \o <<Kv(KeyTable, t)>> \o h : t \in IsoSources, h \in HeaderOpts \ {<<>>} }

ArgPool ==
    { Kv(KeyTable, JoinRows(<< <<"a", ",", "b">>, <<"c", ",", "d">> >>)),
      Kv(KeyTable, <<"\"", "x", "\"", "\"", "y", "\"", ",", "d", "\\", "n", "e", ",", "f">>),
      Kv(KeyTable, <<>>),
      Kv(KeyHeader, Yes), Kv(KeyHeader, No), Kv(KeyHeader, <<"m", "a", "y", "b", "e">>),
      Kv(KeyTable, EscNewline),
      Kv(KeyColumns, <<"2">>), Kv(KeyColumns, <<"0">>), Kv(KeyColumns, <<"x">>),
      Kv(KeySchema, SchemaText),
      Kv(KeyDelimiter, <<";", ";">>),
      <<" ">> \o KeyHeader \o <<" ", "=">> \o Yes \o <<" ">>,
      <<"f", "o", "o">>,
      Kv(<<"b", "a", "r">>, <<"1">>) }

ArgLists == UNION { [1..k -> ArgPool] : k \in 0..MaxArgs }

\* A table with a schema, under every combination of header and columns.
SchemaArgs ==
    { HostSlots \o <<Kv(KeyTable, t)>> \o h \o c \o <<Kv(KeySchema, SchemaText)>> :
        t \in ScanSources, h \in HeaderOpts, c \in { <<>>, <<Kv(KeyColumns, <<"2">>)>> } }

\* Arguments whose value holds a '=' of its own.
EqArgs ==
    { HostSlots \o <<Kv(KeyTable, t)>> \o e :
        t \in { <<"a", ",", "b", "\\", "n", "c", ",", "d", "=", "e", ",", "f">>,
                <<"\"", "a", "=", "b", "\"">>,
                <<"a", "=", "=", "b">> },
        e \in { <<>>,
                <<Kv(KeySchema, SchemaText \o <<"=", "1">>)>>,
                <<Kv(KeyColumns, <<"2", "=", "x">>)>>,
                <<Kv(KeyHeader, <<"y", "e", "s", "=", "n", "o">>)>> } }

ConnectArgs ==
    { HostSlots \o l : l \in ArgLists } \cup { SubSeq(HostSlots, 1, k) : k \in 0..2 }
    \cup SchemaArgs \cup EqArgs

ColIndexes == -1..MaxCol

----------------------------------------------------------------------------
(* Specifications.                                                         *)

InitWith(argLists) ==
    /\ args \in argLists
    /\ clearsRecord \in BOOLEAN
    /\ result = NoResult
    /\ cursors = [c \in Cursors |-> NoCursor]
    /\ scan = [c \in Cursors |-> NoScan]
    /\ ret = NoRet

CursorCall(c) ==
    \/ open(c)
    \/ close(c)
    \/ filter(c)
    \/ next(c)
    \/ eof(c)
    \/ rowid(c)
    \/ \E col \in ColIndexes : column(c, col)

\* One cursor scanning tables built from many sources.
Init == InitWith(ScanArgs)
Next == Connect \/ CursorCall(1)
Spec == Init /\ [][Next]_vars

\* Several cursors open on one table, their calls interleaved.
InitIso == InitWith(IsoArgs)
NextIso == Connect \/ \E c \in Cursors : CursorCall(c)
SpecIso == InitIso /\ [][NextIso]_vars

\* connect alone, over every list of arguments from the pool.
InitConnect == InitWith(ConnectArgs)
NextConnect == Connect
SpecConnect == InitConnect /\ [][NextConnect]_vars

----------------------------------------------------------------------------
(* What the properties refer to.                                           *)

\* Index of the first data record of a table.
FirstData(vtab) == IF vtab.has_headers THEN 2 ELSE 1

\* The data records a scan can yield: those with as many fields as the first record.
RECURSIVE Readable(_, _, _)
Readable(recs, k, n) ==
    IF k > Len(recs) THEN <<>>
    ELSE IF Len(recs[k].fields) = n THEN <<recs[k]>> \o Readable(recs, k + 1, n)
    ELSE Readable(recs, k + 1, n)

\* The rows of a whole scan of a table, numbered from 1.
ExpectedRows(vtab) ==
    LET recs == SourceRecords(vtab)
        data == IF recs = <<>> THEN <<>>
                ELSE Readable(recs, FirstData(vtab), Len(recs[1].fields))
    IN  [k \in 1..Len(data) |-> [rowid |-> k, fields |-> data[k].fields, at |-> data[k].at]]

Connected == result.status = "ok"

\* C1: right after any filter() the current row is the second record of the
\* source when the table has a header and the first record when it has none
\* (eof is reported exactly when the source has no such record), and no scan of
\* a table with a header ever yields the header record.
FirstRowAfterFilter ==
    /\ ret.op = "filter" =>
          LET cur == cursors[ret.cur]
              recs == SourceRecords(result.vtab)
              k == FirstData(result.vtab)
          IN  IF Len(recs) >= k
              THEN ~cur.eof /\ cur.cols = recs[k]
              ELSE cur.eof /\ ret.ok
    /\ \A c \in Cursors :
          (Connected /\ result.vtab.has_headers) =>
             \A i \in 1..Len(scan[c].rows) : scan[c].rows[i].at > 0

\* C1 witness: a filter() repeated after earlier calls lands on the second record
\* of a table with a header.
FirstRowAfterFilterWitness ==
    /\ ret.op = "filter" /\ ret.ok
    /\ result.vtab.has_headers
    /\ scan[ret.cur].again
    /\ ~cursors[ret.cur].eof
    /\ cursors[ret.cur].cols.fields = SourceRecords(result.vtab)[2].fields

\* C2: whenever a scan started by filter() has been drained to eof, the rows it
\* yielded are the rows of a whole scan of the table, whatever the cursor did
\* before that filter().
FilterRestartable ==
    \A c \in Cursors :
        (cursors[c].open /\ scan[c].filtered /\ cursors[c].eof) =>
            scan[c].rows = ExpectedRows(result.vtab)

\* C2 witness: a cursor filtered again after earlier calls has been drained and
\* has yielded two rows or more.
FilterRestartableWitness ==
    \E c \in Cursors :
        /\ cursors[c].open /\ scan[c].again /\ cursors[c].eof
        /\ Len(scan[c].rows) >= 2

\* C3: after a successful filter() or next() that leaves eof false, rowid() is
\* the number of rows yielded since the last filter(), and the rowids of those
\* rows are 1, 2, 3, ... in order.
RowidIsPosition ==
    (ret.op \in {"filter", "next"} /\ ret.ok /\ ~cursors[ret.cur].eof) =>
        LET rows == scan[ret.cur].rows IN
        /\ RowidValue(cursors[ret.cur]) = Len(rows)
        /\ \A k \in 1..Len(rows) : rows[k].rowid = k

\* C3 witness: next() has yielded the second row of a scan.
RowidIsPositionWitness ==
    /\ ret.op = "next" /\ ret.ok /\ ~cursors[ret.cur].eof
    /\ RowidValue(cursors[ret.cur]) = 2
    /\ scan[ret.cur].filtered

\* C6: column(index) on a current record with no fields returns a null value.
ColumnNullOnEmptyRecord ==
    (ret.op = "column" /\ cursors[ret.cur].cols.fields = <<>>) =>
        (ret.ok /\ ret.val[2] = "Null")

\* C9 as stated: a next() call that fails leaves row_number, current_record and
\* eof as they were.
FailedNextKeepsState ==
    [][(ret'.op = "next" /\ ~ret'.ok) =>
          /\ cursors'[ret'.cur].row_number = cursors[ret'.cur].row_number
          /\ cursors'[ret'.cur].cols.fields = cursors[ret'.cur].cols.fields
          /\ cursors'[ret'.cur].eof = cursors[ret'.cur].eof]_vars

\* C9 as amended: a next() call that fails leaves row_number and eof as they
\* were and does not read again: current_record holds the first data record at
\* or after the reader's position, whose field count differs from the first
\* record's, and the reader stands right after that record. A filter() that
\* fails leaves row_number 0 and eof false.
FailedNextKeepsCount ==
    [][/\ (ret'.op = "next" /\ ~ret'.ok) =>
            LET old == cursors[ret'.cur]
                new == cursors'[ret'.cur]
                recs == SourceRecords(result.vtab)
                ahead == { j \in FirstData(result.vtab)..Len(recs) :
                             recs[j].at >= old.reader.cur_pos.byte }
            IN  /\ new.row_number = old.row_number
                /\ new.eof = old.eof
                /\ ahead # {}
                /\ LET k == CHOOSE j \in ahead : \A i \in ahead : j <= i IN
                   /\ new.cols = recs[k]
                   /\ Len(recs[k].fields) # Len(recs[1].fields)
                   /\ Len(RecordsFrom(new.reader.text, new.reader.cur_pos.byte,
                                      new.reader.delimiter, new.reader.quote))
                        = Len(recs) - k
       /\ (ret'.op = "filter" /\ ~ret'.ok) =>
            /\ cursors'[ret'.cur].row_number = 0
            /\ ~cursors'[ret'.cur].eof]_vars

\* C9 witness: a next() call has failed after a row was yielded.
FailedNextWitness ==
    /\ ret.op = "next" /\ ~ret.ok
    /\ cursors[ret.cur].row_number >= 1
    /\ Len(scan[ret.cur].rows) >= 1

----------------------------------------------------------------------------
(* Properties of connect.                                                  *)

\* The arguments after the host's three slots.
Params == IF Len(args) < 4 THEN <<>> ELSE SubSeq(args, 4, Len(args))

\* What the argument loop accumulates from the first n arguments.
ParsedUpTo(n) == ConnectLoop(AccNew, SubSeq(Params, 1, n), 1)
Parsed == ParsedUpTo(Len(Params))

Returned == result.status # "none"

Keys == {KeyTable, KeySchema, KeyHeader, KeyColumns, KeyDelimiter, KeyQuote}

\* The error kinds of the specification's taxonomy.
IsParameterError(msg) ==
    msg \in {"illegal argument", "unrecognized parameter",
             "more than one 'columns' parameter", "must have at least one column",
             "unrecognized argument to 'columns'", "unrecognized argument to 'header'",
             "unrecognized argument to 'delimiter'", "unrecognized argument to 'quote'"}

ValueErrors ==
    {"more than one 'columns' parameter", "must have at least one column",
     "unrecognized argument to 'columns'", "unrecognized argument to 'header'",
     "unrecognized argument to 'delimiter'", "unrecognized argument to 'quote'"}

\* C4: a valid argument list with columns=N, a non-empty table and no schema
\* connects, and the column names are c0 .. c(N-1), whatever header is.
ColumnsGiveNumberedNames ==
    (/\ Returned
     /\ Parsed.err = ""
     /\ Parsed.n_col >= 1
     /\ Parsed.schema = "None"
     /\ Parsed.vtab.table # <<>>) =>
        /\ result.status = "ok"
        /\ result.cols = [i \in 1..Parsed.n_col |-> <<"c">> \o FormatNat(i - 1)]

\* name is field with every double quote doubled
RECURSIVE IsDoubled(_, _)
IsDoubled(field, name) ==
    IF field = <<>> THEN name = <<>>
    ELSE IF Head(field) = "\""
         THEN /\ Len(name) >= 2
              /\ name[1] = "\"" /\ name[2] = "\""
              /\ IsDoubled(Tail(field), SubSeq(name, 3, Len(name)))
    ELSE /\ name # <<>>
         /\ name[1] = Head(field)
         /\ IsDoubled(Tail(field), Tail(name))

\* C5: with header=yes, a non-empty table and neither schema nor columns, the
\* column names of the generated schema are the fields of the first record of
\* the source, in order, each with every double quote doubled (connect fails
\* with "no column specified" when the source holds no record).
HeaderNamesEscaped ==
    (/\ Returned
     /\ Parsed.err = ""
     /\ Parsed.vtab.has_headers
     /\ Parsed.vtab.table # <<>>
     /\ Parsed.n_col = -1
     /\ Parsed.schema = "None") =>
        LET recs == SourceRecords(Parsed.vtab) IN
        IF recs = <<>>
        THEN result.status = "err" /\ result.msg = "no column specified"
        ELSE /\ result.status = "ok"
             /\ Len(result.cols) = Len(recs[1].fields)
             /\ \A i \in 1..Len(result.cols) : IsDoubled(recs[1].fields[i], result.cols[i])
             /\ result.schema = SqlHead \o SchemaSql(result.cols, 1)

\* C5 witness: connect has taken a header field that holds a double quote.
HeaderNamesEscapedWitness ==
    /\ result.status = "ok"
    /\ result.vtab.has_headers
    /\ Parsed.n_col = -1 /\ Parsed.schema = "None"
    /\ \E i \in 1..Len(result.cols) :
          \E k \in 1..Len(result.cols[i]) : result.cols[i][k] = "\""

\* Argument i is a table argument with an empty value, and the arguments before
\* it were accepted.
EmptyTableAt(i) ==
    /\ ParsedUpTo(i - 1).err = ""
    /\ parameter(Params[i]).ok
    /\ parameter(Params[i]).param = KeyTable
    /\ parameter(Params[i]).value = <<>>

\* C7: connect fails with "no table name specified" once a table argument with
\* an empty value is met, whatever follows it.
EmptyTableFailsAtOnce ==
    Returned =>
        \A i \in 1..Len(Params) :
            EmptyTableAt(i) =>
                (result.status = "err" /\ result.msg = "no table name specified")

\* The argument has no '=' or its key is not a recognized one.
Malformed(a) ==
    \/ \A k \in 1..Len(a) : a[k] # "="
    \/ parameter(a).param \notin Keys

MalformedAt == { i \in 1..Len(Params) : Malformed(Params[i]) }

FirstMalformed == CHOOSE i \in MalformedAt : \A j \in MalformedAt : i <= j

\* C8 as stated: when some argument is malformed, connect returns the
\* ParameterError for the first malformed argument.
FirstMalformedReported ==
    (Returned /\ MalformedAt # {}) =>
        /\ result.status = "err"
        /\ IsParameterError(result.msg)
        /\ result.errArg = FirstMalformed

\* C8 as amended: when some argument is malformed, connect returns a
\* ParameterError and no table; the error is the one for the first malformed
\* argument unless an argument before it has a value that connect refuses, and
\* then it is the error for that argument.
MalformedArgumentFails ==
    (Returned /\ MalformedAt # {}) =>
        /\ result.status = "err"
        /\ IsParameterError(result.msg)
        /\ result.vtab = VTabNew /\ result.schema = <<>>
        /\ result.errArg \in 1..FirstMalformed
        /\ result.errArg = FirstMalformed =>
              result.msg = IF \A k \in 1..Len(Params[FirstMalformed]) :
                                  Params[FirstMalformed][k] # "="
                           THEN "illegal argument" ELSE "unrecognized parameter"
        /\ result.errArg < FirstMalformed =>
              /\ result.msg \in ValueErrors
              /\ ~Malformed(Params[result.errArg])

\* C8 witness: connect has refused the second of three arguments as malformed.
MalformedArgumentFailsWitness ==
    /\ result.status = "err"
    /\ Len(Params) = 3
    /\ MalformedAt # {}
    /\ FirstMalformed = 2
    /\ result.errArg = 2

----------------------------------------------------------------------------
(* Properties of cursors open together.                                    *)

\* C10: a call on one cursor changes no other cursor and, once connected, never
\* the table; and every scan drained to eof has yielded the rows of a whole
\* scan of the table, whatever the other cursors did meanwhile.
CursorsIsolated ==
    /\ [](\A c \in Cursors :
            (cursors[c].open /\ scan[c].filtered /\ cursors[c].eof) =>
                scan[c].rows = ExpectedRows(result.vtab))
    /\ [][/\ Connected => result' = result
          /\ \A c \in Cursors :
                c # ret'.cur => (cursors'[c] = cursors[c] /\ scan'[c] = scan[c])]_vars

\* C10 witness: two cursors are open at different rows of one table: the one that
\* moved last, on a repeated scan, is a row ahead of the other.
CursorsIsolatedWitness ==
    /\ cursors[1].open /\ cursors[2].open
    /\ ret.op = "next" /\ ret.cur = 2 /\ ret.ok
    /\ ~cursors[1].eof /\ ~cursors[2].eof
    /\ cursors[1].row_number = 1
    /\ cursors[2].row_number = 2
    /\ scan[1].filtered /\ scan[2].again

----------------------------------------------------------------------------
(* Properties of the generated schema and of the parsed parameters.        *)

\* The column definitions "n1" TEXT, "n2" TEXT, ... joined by ", "
RECURSIVE JoinColumnDefs(_)
JoinColumnDefs(names) ==
    IF names = <<>> THEN <<>>
    ELSE LET def == <<"\"">> \o Head(names) \o <<"\"", " ", "T", "E", "X", "T">>
         IN  IF Len(names) = 1 THEN def
             ELSE def \o <<",", " ">> \o JoinColumnDefs(Tail(names))

\* C11: when connect succeeds without a schema argument, the schema it returns
\* is CREATE TABLE x( followed by "name" TEXT for each column in order, joined
\* by a comma and a space, and closed by ); with no trailing comma.
SchemaTextExact ==
    (result.status = "ok" /\ Parsed.schema = "None") =>
        /\ Len(result.cols) >= 1
        /\ result.schema =
              <<"C", "R", "E", "A", "T", "E", " ", "T", "A", "B", "L", "E", " ", "x", "(">>
              \o JoinColumnDefs(result.cols) \o <<")", ";">>

\* C11 witness: connect has generated the schema of two columns or more.
SchemaTextExactWitness ==
    /\ result.status = "ok" /\ Parsed.schema = "None"
    /\ Len(result.cols) >= 2

----------------------------------------------------------------------------
(* Properties of a table read with quote=0.                                *)

\* The pieces of s between the occurrences of ch, all of them
RECURSIVE SplitOn(_, _, _, _)
SplitOn(s, ch, i, cur) ==
    IF i > Len(s) THEN <<cur>>
    ELSE IF s[i] = ch THEN <<cur>> \o SplitOn(s, ch, i + 1, <<>>)
    ELSE SplitOn(s, ch, i + 1, Append(cur, s[i]))

\* The lines that are not empty, each cut at the delimiter and nowhere else
RECURSIVE PlainLines(_, _)
PlainLines(lines, dl) ==
    IF lines = <<>> THEN <<>>
    ELSE IF Head(lines) = <<>> THEN PlainLines(Tail(lines), dl)
    ELSE <<SplitOn(Head(lines), dl, 1, <<>>)>> \o PlainLines(Tail(lines), dl)

\* The records of a table's source when only the delimiter and the line ends
\* are special.
PlainRecords(vtab) ==
    PlainLines(SplitOn(ReplaceEscapedNewline(vtab.table, 1), "\n", 1, <<>>), vtab.delimiter)

\* The records among recs[k..] that have n fields
RECURSIVE PlainReadable(_, _, _)
PlainReadable(recs, k, n) ==
    IF k > Len(recs) THEN <<>>
    ELSE IF Len(recs[k]) = n THEN <<recs[k]>> \o PlainReadable(recs, k + 1, n)
    ELSE PlainReadable(recs, k + 1, n)

\* The data rows of a scan of such a table
PlainRows(vtab) ==
    LET recs == PlainRecords(vtab)
    IN  IF recs = <<>> THEN <<>> ELSE PlainReadable(recs, FirstData(vtab), Len(recs[1]))

HasQuoteByte(field) == \E k \in 1..Len(field) : field[k] = "\""

\* C12: on a table connected with quote=0 the rows a cursor yields are the
\* lines of the source cut at the delimiter alone, so a double quote stays in
\* its field as it is, and column() returns a field of such a record.
QuoteZeroIsLiteral ==
    (Connected /\ result.vtab.quote = NUL) =>
        /\ \A c \in Cursors :
              /\ Len(scan[c].rows) <= Len(PlainRows(result.vtab))
              /\ \A i \in 1..Len(scan[c].rows) :
                    scan[c].rows[i].fields = PlainRows(result.vtab)[i]
        /\ (ret.op = "column" /\ ret.ok) =>
              /\ \E rec \in { PlainRecords(result.vtab)[j] :
                                 j \in 1..Len(PlainRecords(result.vtab)) } :
                    cursors[ret.cur].cols.fields = rec
              /\ ret.val[2] = cursors[ret.cur].cols.fields[ret.val[1] + 1]

\* C12 witness: column() has returned a field that holds double quotes, from a
\* row yielded by a table connected with quote=0.
QuoteZeroIsLiteralWitness ==
    /\ Connected /\ result.vtab.quote = NUL
    /\ ret.op = "column" /\ ret.ok
    /\ HasQuoteByte(ret.val[2])
    /\ scan[ret.cur].rows # <<>>
    /\ ~cursors[ret.cur].eof
    /\ scan[ret.cur].rows[Len(scan[ret.cur].rows)].fields = cursors[ret.cur].cols.fields

----------------------------------------------------------------------------
(* Properties of the columns parameter.                                    *)

\* The arguments whose key is columns
ColumnsAt ==
    { i \in 1..Len(Params) :
        parameter(Params[i]).ok /\ parameter(Params[i]).param = KeyColumns }

\* v is written as an integer: digits, after an optional sign
IsIntegerText(v) ==
    LET body == IF v # <<>> /\ Head(v) \in {"+", "-"} THEN Tail(v) ELSE v
    IN  body # <<>> /\ \A k \in 1..Len(body) : body[k] \in {Digits[d] : d \in 1..10}

\* v is written as an integer that is 1 or more
IsPositiveIntegerText(v) ==
    /\ IsIntegerText(v)
    /\ Head(v) # "-"
    /\ \E k \in 1..Len(v) : v[k] \notin {"+", "0"}

\* C13: connect fails with a ParameterError for every argument list in which
\* columns occurs twice, whatever the values, or in which a columns value is 0
\* or not an integer; and when connect succeeds columns occurs at most once,
\* with a value that is an integer of 1 or more.
ColumnsOnceAndPositive ==
    Returned =>
        /\ (\/ Cardinality(ColumnsAt) >= 2
            \/ \E i \in ColumnsAt :
                  ~IsPositiveIntegerText(parameter(Params[i]).value))
              => (result.status = "err" /\ IsParameterError(result.msg))
        /\ result.status = "ok" =>
              /\ Cardinality(ColumnsAt) <= 1
              /\ \A i \in ColumnsAt : IsPositiveIntegerText(parameter(Params[i]).value)

\* C13 witness: connect has refused the second of two columns parameters, each
\* with a value it accepts, given after a table.
ColumnsOnceAndPositiveWitness ==
    /\ result.status = "err"
    /\ result.msg = "more than one 'columns' parameter"
    /\ Cardinality(ColumnsAt) = 2
    /\ \A i \in ColumnsAt : IsPositiveIntegerText(parameter(Params[i]).value)
    /\ result.errArg = 3

----------------------------------------------------------------------------
(* Properties of the cursor's state machine.                               *)

\* C14: row_number is the number of records that next() has stored as the
\* current record since the last filter() (0 on a cursor just opened); a
\* next() that finds no more records leaves it as it was.
RowNumberCountsStored ==
    \A c \in Cursors :
        cursors[c].open => cursors[c].row_number = Len(scan[c].rows)

\* Every record of the source has as many fields as the first.
NoneMalformed(vtab) ==
    LET recs == SourceRecords(vtab)
    IN  \A j \in 1..Len(recs) : Len(recs[j].fields) = Len(recs[1].fields)

\* The number of data records of the source.
DataCount(vtab) ==
    LET n == Len(SourceRecords(vtab)) - (FirstData(vtab) - 1)
    IN  IF n < 0 THEN 0 ELSE n

\* C15: on a table with N data records, none malformed, after filter() and k
\* calls of next() eof is true exactly when k >= N; so eof is true right after
\* filter() when N = 0, and every scan is at eof after N calls of next().
EofAfterAllRows ==
    \A c \in Cursors :
        (/\ Connected /\ cursors[c].open /\ scan[c].filtered
         /\ NoneMalformed(result.vtab)) =>
            (cursors[c].eof <=> scan[c].nexts >= DataCount(result.vtab))

\* C15 witness: a scan of a table with three data records has reached eof at
\* the third next() after a repeated filter().
EofAfterAllRowsWitness ==
    /\ Connected /\ NoneMalformed(result.vtab)
    /\ DataCount(result.vtab) = 3
    /\ ret.op = "next"
    /\ scan[ret.cur].again
    /\ scan[ret.cur].nexts = 3
    /\ cursors[ret.cur].eof

\* C16: a next() call on a cursor whose eof flag is true returns success and
\* leaves row_number, the current record and the eof flag as they were, however
\* often it is repeated.
NextAtEofIsNoOp ==
    [][(ret'.op = "next" /\ cursors[ret'.cur].open /\ cursors[ret'.cur].eof) =>
          /\ ret'.ok
          /\ cursors'[ret'.cur].row_number = cursors[ret'.cur].row_number
          /\ cursors'[ret'.cur].cols = cursors[ret'.cur].cols
          /\ cursors'[ret'.cur].eof
          /\ scan'[ret'.cur].rows = scan[ret'.cur].rows]_vars

\* C16 witness: next() has been called twice or more on a cursor already at eof
\* after a scan that yielded rows.
NextAtEofIsNoOpWitness ==
    /\ Connected /\ NoneMalformed(result.vtab)
    /\ ret.op = "next" /\ ret.ok
    /\ cursors[ret.cur].eof
    /\ scan[ret.cur].filtered
    /\ result.vtab.has_headers
    /\ DataCount(result.vtab) = 2
    /\ Len(scan[ret.cur].rows) = 2
    /\ scan[ret.cur].nexts = 4

\* C17: column(index) fails with an IndexError and no result for every index
\* that is negative or not below the number of fields of the current record,
\* and succeeds with the field for every other index; on a cursor that has
\* only been opened it fails for every index.
ColumnIndexChecked ==
    ret.op = "column" =>
        LET fields == cursors[ret.cur].cols.fields
            index == ret.val[1]
        IN  /\ (index < 0 \/ index >= Len(fields)) =>
                  (~ret.ok /\ ret.val[2] = "IndexError")
            /\ (0 <= index /\ index < Len(fields)) =>
                  (ret.ok /\ ret.val[2] = fields[index + 1])
            /\ (~scan[ret.cur].filtered /\ scan[ret.cur].nexts = 0) => ~ret.ok

\* C17 witness: column() has failed for the index just past the last field of
\* a row with two fields.
ColumnIndexCheckedWitness ==
    /\ ret.op = "column" /\ ~ret.ok
    /\ ret.val[1] = 2
    /\ Len(cursors[ret.cur].cols.fields) = 2
    /\ ~cursors[ret.cur].eof
    /\ scan[ret.cur].filtered

----------------------------------------------------------------------------
(* Properties of connect with a schema argument.                           *)

\* The value of the last schema argument, as the parameter parser returns it.
RECURSIVE LastSchemaValue(_)
LastSchemaValue(k) ==
    IF k = 0 THEN <<>>
    ELSE IF parameter(Params[k]).ok /\ parameter(Params[k]).param = KeySchema
         THEN parameter(Params[k]).value
    ELSE LastSchemaValue(k - 1)

SchemaSupplied ==
    \E k \in 1..Len(Params) :
        parameter(Params[k]).ok /\ parameter(Params[k]).param = KeySchema

\* C18: with a schema argument, a non-empty table and valid parameters connect
\* succeeds and returns the schema as supplied, whatever header and columns
\* are; the first data position is the start of the payload without a header,
\* and with a header it is the offset after the first record: reading from it
\* gives the second record of the source and those after it.
SchemaTakenVerbatim ==
    (/\ Returned
     /\ Parsed.err = ""
     /\ SchemaSupplied
     /\ Parsed.vtab.table # <<>>) =>
        /\ result.status = "ok"
        /\ result.schema = LastSchemaValue(Len(Params))
        /\ IF Parsed.vtab.has_headers
           THEN LET recs == SourceRecords(result.vtab)
                    text == ReplaceEscapedNewline(result.vtab.table, 1)
                    rest == RecordsFrom(text, result.vtab.offset_first_row.byte,
                                        result.vtab.delimiter, result.vtab.quote)
                IN  /\ rest = SubSeq(recs, 2, Len(recs))
                    /\ recs # <<>> => result.vtab.offset_first_row.byte > 0
           ELSE result.vtab.offset_first_row = [byte |-> 0, record |-> 0]

\* C18 witness: connect has succeeded with a schema, header=yes and columns=2
\* on a source of two records or more.
SchemaTakenVerbatimWitness ==
    /\ result.status = "ok"
    /\ SchemaSupplied
    /\ result.vtab.has_headers
    /\ Parsed.n_col = 2
    /\ Len(SourceRecords(result.vtab)) >= 2
    /\ result.vtab.offset_first_row.byte = SourceRecords(result.vtab)[2].at
    /\ result.schema = SchemaText

----------------------------------------------------------------------------
(* Properties of the parameter parser.                                     *)

\* The positions of '=' in a
EqPositions(a) == { k \in 1..Len(a) : a[k] = "=" }

\* The k-th smallest element of a set of numbers
RECURSIVE KthOf(_, _)
KthOf(S, k) ==
    LET least == CHOOSE x \in S : \A y \in S : x <= y
    IN  IF k = 1 THEN least ELSE KthOf(S \ {least}, k - 1)

\* The argument without its second '=' and what follows it
CutAtSecondEq(a) ==
    IF Cardinality(EqPositions(a)) < 2 THEN a
    ELSE SubSeq(a, 1, KthOf(EqPositions(a), 2) - 1)

\* The last table argument, 0 when there is none with a value
LastTableAt ==
    LET at == { i \in 1..Len(Params) :
                  /\ parameter(Params[i]).ok
                  /\ parameter(Params[i]).param = KeyTable
                  /\ parameter(Params[i]).value # <<>> }
    IN  IF at = {} THEN 0 ELSE CHOOSE i \in at : \A j \in at : j <= i

\* C19: for an argument with two '=' or more the parser returns, without an
\* error, the text between the first and the second '=' (unquoted) as the
\* value; what follows the second '=' has no effect on what connect returns,
\* and the table text stored is that value.
ValueCutAtSecondEq ==
    Returned =>
        /\ \A i \in 1..Len(Params) :
              LET a == Trim(Params[i])
                  eqs == EqPositions(a)
              IN  Cardinality(eqs) >= 2 =>
                    /\ parameter(Params[i]).ok
                    /\ parameter(Params[i]).value =
                          dequote(SubSeq(a, KthOf(eqs, 1) + 1, KthOf(eqs, 2) - 1))
        /\ Len(args) >= 4 =>
              result = connect(SubSeq(args, 1, 3)
                                 \o [i \in 1..Len(Params) |-> CutAtSecondEq(Params[i])],
                               clearsRecord)
        /\ (result.status = "ok" /\ Cardinality(EqPositions(Params[LastTableAt])) >= 2) =>
              result.vtab.table =
                  dequote(SubSeq(Trim(Params[LastTableAt]),
                                 KthOf(EqPositions(Trim(Params[LastTableAt])), 1) + 1,
                                 KthOf(EqPositions(Trim(Params[LastTableAt])), 2) - 1))

\* C19 witness: connect has succeeded on a table argument and a schema
\* argument that each hold a second '=', and has stored the cut values.
ValueCutAtSecondEqWitness ==
    /\ result.status = "ok"
    /\ Len(Params) = 2
    /\ Cardinality(EqPositions(Params[1])) = 2
    /\ Cardinality(EqPositions(Params[2])) = 2
    /\ result.vtab.table = <<"a", ",", "b", "\\", "n", "c", ",", "d">>
    /\ result.schema = SchemaText

====
